---- MODULE Spec2Model ----
(***************************************************************************)
(* A model of scripts/cutout.py: the person-cutout mask pipeline.          *)
(*                                                                         *)
(*   _erode_mask, _tighten_mask      per-frame mask tightening             *)
(*   _detect_scene_changes           scene-cut detection (luminance MAD)   *)
(*   _scene_range,                                                         *)
(*   _apply_temporal_smoothing       scene-aware neighbour blend           *)
(*   process_cutout                  the two-pass orchestration            *)
(*                                                                         *)
(* Frame indices are the source's (0-based): a list of n items is a        *)
(* function on 0..n-1.  An image is a function from <<row, col>> to        *)
(* 0..255.                                                                 *)
(***************************************************************************)
EXTENDS Integers, Sequences, FiniteSets, TLC

(***************************************************************************)
(* Images.  img[r][c] is the pixel in row r, column c; rows and columns    *)
(* are numbered from 0 as in numpy.                                        *)
(***************************************************************************)
Rows(img) == Cardinality(DOMAIN img)

Cols(img) == Cardinality(DOMAIN img[0])

\* An array is computed once, element by element, when it is made (comparing
\* it with itself makes TLC evaluate every element and keep the values).
Image(h, w, px(_, _)) ==
    LET a == [r \in 0..(h - 1) |-> [c \in 0..(w - 1) |-> px(r, c)]]
    IN  IF a = a THEN a ELSE a

\* np.roll(a, shift, axis=0): row r of the result is row (r - shift) mod h
RollRows(a, shift) ==
    Image(Rows(a), Cols(a), LAMBDA r, c : a[(r - shift) % Rows(a)][c])

\* a variant of lines 57-58 that shifts nothing
RollColsNone(a, shift) == a

\* np.roll(a, shift, axis=1)
RollCols(a, shift) ==
    Image(Rows(a), Cols(a), LAMBDA r, c : a[r][(c - shift) % Cols(a)])

(***************************************************************************)
(* _erode_mask (cutout.py:47-65)                                           *)
(***************************************************************************)
\* a variant of the erosion without lines 61-64
KeepBorder(result) == result

\* lines 61-64: result[0,:], result[-1,:], result[:,0], result[:,-1] = False
ClearBorder(result) ==
    Image(Rows(result), Cols(result),
          LAMBDA r, c : IF \/ r = 0
                           \/ r = Rows(result) - 1
                           \/ c = 0
                           \/ c = Cols(result) - 1
                        THEN FALSE
                        ELSE result[r][c])

\* one pass of the loop body, lines 55-64
ErodeOnce(result) ==
    LET up    == RollRows(result, -1)
        down  == RollRows(result, 1)
        left  == RollCols(result, -1)
        right == RollCols(result, 1)
    IN  ClearBorder(Image(Rows(result), Cols(result),
                          LAMBDA r, c : /\ result[r][c]
                                        /\ up[r][c]
                                        /\ down[r][c]
                                        /\ left[r][c]
                                        /\ right[r][c]))

RECURSIVE erode_mask(_, _)
erode_mask(binary, iterations) ==
    IF iterations = 0 THEN binary
    ELSE erode_mask(ErodeOnce(binary), iterations - 1)

(***************************************************************************)
(* ImageFilter.GaussianBlur(radius=1.5) (cutout.py:84), as Pillow computes *)
(* it: three passes of a box blur along the rows, then three along the     *)
(* columns.  For radius 1.5 and three passes the box radius is             *)
(* 1 + 0.0384615, so a line's pixel x becomes                              *)
(*   (ww * (in[x-1] + in[x] + in[x+1]) + fw * (in[x-2] + in[x+2])          *)
(*      + 2^23) >> 24                                                      *)
(* with ww = 2^24 / 3.0769231 chopped and fw = (2^24 - 3 * ww) / 2, and a  *)
(* position outside the line read as the line's nearest end.               *)
(***************************************************************************)
BoxWW == 5452595

BoxFW == 209715

Clamp(x, lo, hi) == IF x < lo THEN lo ELSE IF x > hi THEN hi ELSE x

\* The 32-bit unsigned sum ww * near + fw * far + 2^23 is below 2^32 but not
\* below 2^31; it is evaluated with ww split at bit 12.
BoxPixel(near, far) ==
    LET high == near * (BoxWW \div 2^12)
        low  == near * (BoxWW % 2^12) + far * BoxFW + 2^23
    IN  (high + (low \div 2^12)) \div 2^12

BoxBlurLine(line) ==
    LET lastx  == Cardinality(DOMAIN line) - 1
        at(x)  == line[Clamp(x, 0, lastx)]
    IN  [x \in DOMAIN line |->
            BoxPixel(at(x - 1) + at(x) + at(x + 1), at(x - 2) + at(x + 2))]

HorizontalBoxBlur(img) ==
    Image(Rows(img), Cols(img), LAMBDA r, c : BoxBlurLine(img[r])[c])

Transpose(img) == Image(Cols(img), Rows(img), LAMBDA r, c : img[c][r])

RECURSIVE HorizontalPasses(_, _)
HorizontalPasses(img, n) ==
    IF n = 0 THEN img ELSE HorizontalPasses(HorizontalBoxBlur(img), n - 1)

GaussianBlur(img) ==
    Transpose(HorizontalPasses(Transpose(HorizontalPasses(img, 3)), 3))

(***************************************************************************)
(* _tighten_mask (cutout.py:68-86)                                         *)
(***************************************************************************)
\* a variant of line 80 with >= for >
BinarizeAtLeast(mask_array) ==
    Image(Rows(mask_array), Cols(mask_array), LAMBDA r, c : mask_array[r][c] >= 180)

\* line 80
Binarize(mask_array) ==
    Image(Rows(mask_array), Cols(mask_array), LAMBDA r, c : mask_array[r][c] > 180)

\* eroded.astype(np.uint8) * 255
ToIntensity(eroded) ==
    Image(Rows(eroded), Cols(eroded), LAMBDA r, c : IF eroded[r][c] THEN 255 ELSE 0)

tighten_mask(mask_array) ==
    GaussianBlur(ToIntensity(erode_mask(Binarize(mask_array), 2)))

(***************************************************************************)
(* IEEE-754 double arithmetic of the blend (cutout.py:177-178, 189).       *)
(*                                                                         *)
(* numpy evaluates arr * w, blended_sum + ..., total_w += w and            *)
(* blended_sum / total_w in binary64, round-to-nearest-even, and           *)
(* astype(np.uint8) chops the quotient.  Every double that occurs before   *)
(* the division is a multiple of 2^-55 below 2^11 (the smallest operand is *)
(* the weight 0.15, whose unit in the last place is 2^-55), so a double x  *)
(* is held as the natural number x * 2^55, written in three limbs of 22    *)
(* bits, least significant first: <<l0, l1, l2>> is                        *)
(* l0 + l1 * 2^22 + l2 * 2^44.  (TLC's integers are 32 bits wide.)         *)
(***************************************************************************)
Base == 2^22

\* three limb sums, each within 32 bits (possibly negative), carried into range
BigNorm(a0, a1, a2) ==
    LET b1 == a1 + (a0 \div Base)
        b2 == a2 + (b1 \div Base)
    IN  <<a0 % Base, b1 % Base, b2>>

BigZero == <<0, 0, 0>>

BigAdd(x, y) == BigNorm(x[1] + y[1], x[2] + y[2], x[3] + y[3])

BigSub(x, y) == BigNorm(x[1] - y[1], x[2] - y[2], x[3] - y[3])

\* x * v for a small natural v (v <= 255: a pixel value)
BigMulSmall(x, v) == BigNorm(x[1] * v, x[2] * v, x[3] * v)

BigLess(x, y) ==
    \/ x[3] < y[3]
    \/ x[3] = y[3] /\ x[2] < y[2]
    \/ x[3] = y[3] /\ x[2] = y[2] /\ x[1] < y[1]

RECURSIVE BitLen(_)
BitLen(k) == IF k = 0 THEN 0 ELSE 1 + BitLen(k \div 2)

BigBitLen(x) ==
    IF x[3] > 0 THEN 44 + BitLen(x[3])
    ELSE IF x[2] > 0 THEN 22 + BitLen(x[2])
    ELSE BitLen(x[1])

(***************************************************************************)
(* Rounding of an exact result to the 53 significant bits of a double,     *)
(* ties to even.  sticky says that the exact result lies strictly above x  *)
(* (the remainder of a division).  At most 66 - 53 = 13 low bits are       *)
(* dropped, all of them in limb 0.                                         *)
(***************************************************************************)
Round53(x, sticky) ==
    LET len == BigBitLen(x) IN
    IF len <= 53 THEN x
    ELSE
        LET p    == 2^(len - 53)
            rest == x[1] % p
            odd  == (x[1] \div p) % 2 = 1
            up   == \/ 2 * rest > p
                    \/ 2 * rest = p /\ (sticky \/ odd)
        IN  BigNorm(x[1] - rest + (IF up THEN p ELSE 0), x[2], x[3])

\* arr * w: the pixel value v (an integer held exactly in a double) times w
FMulInt(v, w) == Round53(BigMulSmall(w, v), FALSE)

\* x + y
FAdd(x, y) == Round53(BigAdd(x, y), FALSE)

(***************************************************************************)
(* x / t, for a divisor t >= 2^-11 (every t here is a sum of weights):     *)
(* binary long division of x * 2^55 by t.  The two upper limbs of x are    *)
(* below 2^44 <= t, so the division starts with them as the remainder and  *)
(* brings down the 22 bits of limb 0 and then 55 zero bits, 77 bits in     *)
(* eleven groups of seven.  A quotient below 1/4 has a unit in the last    *)
(* place finer than 2^-55; it is kept chopped to 2^-55 (it converts to the *)
(* integer 0 either way).                                                  *)
(***************************************************************************)
\* bits k, k-1, ..., k-count+1 of the dividend: <<quotient bits, remainder>>
RECURSIVE DivBits(_, _, _, _, _, _)
DivBits(r, q, k, count, x0, t) ==
    IF count = 0 THEN <<q, r>>
    ELSE
        LET bit == IF k >= 55 THEN (x0 \div 2^(k - 55)) % 2 ELSE 0
            r2  == BigNorm(2 * r[1] + bit, 2 * r[2], 2 * r[3])
        IN  IF BigLess(r2, t)
            THEN DivBits(r2, 2 * q, k - 1, count - 1, x0, t)
            ELSE DivBits(BigSub(r2, t), 2 * q + 1, k - 1, count - 1, x0, t)

RECURSIVE DivLoop(_, _, _, _, _)
DivLoop(r, q, k, x0, t) ==
    IF k < 0 THEN <<q, r>>
    ELSE
        LET g == DivBits(r, 0, k, 7, x0, t)
        IN  DivLoop(g[2], BigNorm(q[1] * 2^7 + g[1], q[2] * 2^7, q[3] * 2^7),
                    k - 7, x0, t)

FDiv(x, t) ==
    IF x = BigZero THEN BigZero
    ELSE
        LET qr == DivLoop(<<x[2], x[3], 0>>, BigZero, 76, x[1], t)
        IN  Round53(qr[1], qr[2] # BigZero)

\* np.clip(x, 0, 255).astype(np.uint8): clamp, then chop to an integer.
\* x * 2^55 div 2^55 is limb 2 div 2^11.
ClipToUint8(x) ==
    LET whole == x[3] \div 2^11
    IN  IF whole >= 255 THEN 255 ELSE whole

(***************************************************************************)
(* weights = {-1: 0.15, 0: 0.70, 1: 0.15}  (cutout.py:158), as doubles:    *)
(*   0.15 is 5404319552844595 * 2^-55                                      *)
(*   0.70 is 25220157913274776 * 2^-55                                     *)
(***************************************************************************)
Offsets == <<-1, 0, 1>>

weights(offset) ==
    IF offset = 0 THEN <<1677720, 2516582, 1433>>
    ELSE <<3355443, 838860, 307>>

(***************************************************************************)
(* _scene_range (cutout.py:127-138): two scans of the sorted boundaries.   *)
(* sorted_boundaries is a sequence, as sorted(scene_boundaries) is a list. *)
(***************************************************************************)
RECURSIVE SortedSeq(_)
SortedSeq(S) ==
    IF S = {} THEN <<>>
    ELSE LET m == CHOOSE x \in S : \A y \in S : x <= y
         IN  <<m>> \o SortedSeq(S \ {m})

RECURSIVE StartScan(_, _, _, _)
StartScan(idx, sorted_boundaries, k, start) ==
    IF k > Len(sorted_boundaries) THEN start
    ELSE StartScan(idx, sorted_boundaries, k + 1,
                   IF sorted_boundaries[k] <= idx THEN sorted_boundaries[k] ELSE start)

RECURSIVE EndScan(_, _, _, _)
EndScan(idx, sorted_boundaries, k, n) ==
    IF k > Len(sorted_boundaries) THEN n
    ELSE IF sorted_boundaries[k] > idx THEN sorted_boundaries[k]
    ELSE EndScan(idx, sorted_boundaries, k + 1, n)

\* a variant of _scene_range that takes the whole video for the scene
scene_range_whole(idx, sorted_boundaries, n) == <<0, n>>

\* lines 129-138
scene_range(idx, sorted_boundaries, n) ==
    <<StartScan(idx, sorted_boundaries, 1, 0), EndScan(idx, sorted_boundaries, 1, n)>>

(***************************************************************************)
(* One frame of _apply_temporal_smoothing (cutout.py:160-190).             *)
(***************************************************************************)
\* a variant of the test of line 170 that lets the frame at s_end through
InBlendPastEnd(j, s_start, s_end, n) ==
    ~(j < s_start \/ j > s_end \/ j < 0 \/ j >= n)

\* the test of line 170, negated: frame j takes part in frame i's blend
InBlend(j, s_start, s_end, n) ==
    ~(j < s_start \/ j >= s_end \/ j < 0 \/ j >= n)

\* a variant of the loop of line 167 that goes over the neighbours only
IncludedNeighbours(i, sorted_boundaries, n) ==
    LET r == scene_range(i, sorted_boundaries, n)
    IN  SelectSeq(<<-1, 1>>, LAMBDA o : InBlend(i + o, r[1], r[2], n))

\* the offsets the loop of line 167 does not skip, in the loop's order
Included(i, sorted_boundaries, n) ==
    LET r == scene_range(i, sorted_boundaries, n)
    IN  SelectSeq(Offsets, LAMBDA o : InBlend(i + o, r[1], r[2], n))

\* blended_sum = None (line 164): no array yet
None == <<>>

\* lines 164-178 for one pixel: vals[k] is the pixel of the k-th included
\* neighbour; the result is <<blended_sum, total_w>>, blended_sum None
\* while nothing was added
RECURSIVE BlendLoop(_, _, _, _, _)
BlendLoop(offs, vals, k, blended_sum, total_w) ==
    IF k > Len(offs) THEN <<blended_sum, total_w>>
    ELSE
        LET w    == weights(offs[k])
            term == FMulInt(vals[k], w)
        IN  BlendLoop(offs, vals, k + 1,
                      IF blended_sum = None THEN term ELSE FAdd(blended_sum, term),
                      FAdd(total_w, w))

\* line 189 for one pixel
BlendPixel(offs, vals) ==
    LET b == BlendLoop(offs, vals, 1, None, BigZero)
    IN  ClipToUint8(FDiv(b[1], b[2]))

\* lines 164-190 for frame i: the mask written to masks_dir.  raw_masks[j]
\* is the tight mask of frame j (the file read at line 174).
SmoothedMask(raw_masks, i, scene_boundaries, n) ==
    LET offs == Included(i, SortedSeq(scene_boundaries), n)
    IN  IF offs = <<>>
        THEN raw_masks[i]                        \* lines 180-186: the copy
        ELSE Image(Rows(raw_masks[i]), Cols(raw_masks[i]),
                   LAMBDA r, c :
                       BlendPixel(offs, [k \in 1..Len(offs) |->
                                            raw_masks[i + offs[k]][r][c]]))

(***************************************************************************)
(* _detect_scene_changes (cutout.py:89-124).  A frame file is an RGB       *)
(* image, a pixel <<R, G, B>>.                                             *)
(***************************************************************************)
\* Image.convert("L"): Pillow's ITU-R 601-2 luma, in 16-bit fixed point
Luma(rgb) == (rgb[1] * 19595 + rgb[2] * 38470 + rgb[3] * 7471 + 2^15) \div 2^16

Abs(x) == IF x < 0 THEN -x ELSE x

\* the sum of np.abs(prev - curr) over the pixels numbered k and above,
\* pixel k being in row k div width, column k mod width
RECURSIVE AbsDiffFrom(_, _, _)
AbsDiffFrom(prev, curr, k) ==
    IF k >= Rows(prev) * Cols(prev) THEN 0
    ELSE LET r == k \div Cols(prev)
             c == k % Cols(prev)
         IN  Abs(Luma(prev[r][c]) - Luma(curr[r][c])) + AbsDiffFrom(prev, curr, k + 1)

AbsDiffSum(prev, curr) == AbsDiffFrom(prev, curr, 0)

\* a variant of line 118 with >= for >
IsCutAtLeast(prev, curr) ==
    AbsDiffSum(prev, curr) >= 25 * (Rows(prev) * Cols(prev))

\* line 118: np.mean(np.abs(prev - curr)) > threshold, threshold = 25.0.
\* The mean is the double nearest sum / count; with a whole-number threshold
\* and fewer than 2^40 pixels it exceeds 25.0 exactly when sum > 25 * count.
IsCut(prev, curr) ==
    AbsDiffSum(prev, curr) > 25 * (Rows(prev) * Cols(prev))

(***************************************************************************)
(* The run of the script: __main__ and process_cutout                      *)
(* (cutout.py:193-369).                                                    *)
(***************************************************************************)
VARIABLES
    pc,                 \* where the run stands
    mode,               \* the mode argument, "unset" before __main__ reads it
    tmpdir,             \* the scratch directory: "none", "exists", "removed"
    frames_dir,         \* tmpdir/frames: frame index -> extracted RGB frame
    raw_alpha,          \* the oracle's confidence map of the frame in hand, <<>> if none
    raw_masks_dir,      \* tmpdir/raw_masks: frame index -> tight mask
    masks_dir,          \* tmpdir/masks: frame index -> smoothed mask
    scene_boundaries,   \* the set built by _detect_scene_changes
    i,                  \* the index of the loop in progress
    fps,                \* the frame rate given to the encoder, a double (three
                        \* limbs), <<>> if none
    source_fps,         \* the frame rate of the input video, <<num, den>>, <<>>
                        \* until ffprobe is asked for it
    error,              \* the ERROR line printed, <<"none">> if none
    exit_code,          \* the process exit status, "running" until it ends
    events              \* the external tools called and the stages announced

vars == <<pc, mode, tmpdir, frames_dir, raw_alpha, raw_masks_dir, masks_dir,
          scene_boundaries, i, fps, source_fps, error, exit_code, events>>

\* the bounds of the model
MaxFrames == 3

MaxSeq == 5

ImgRows == 5

ImgCols == 5

MaxGrid == 3

\* a directory without files
NoFiles == [k \in {} |-> k]

\* Image.fromarray(img).save(path) and shutil.copy: file k of dir is img
WriteFile(dir, k, img) ==
    [j \in DOMAIN dir \cup {k} |-> IF j = k THEN img ELSE dir[j]]

\* frames = sorted(...jpg names), total = len(frames)  (lines 245-246)
Total == Cardinality(DOMAIN frames_dir)

\* line 207
invert_mask == (mode = "removePerson")

Uniform(h, w, v) == Image(h, w, LAMBDA r, c : v)

\* what the frame extraction can leave in frames_dir: frames of one size,
\* each all black or all red
VideoFrames ==
    {Uniform(ImgRows, ImgCols, <<0, 0, 0>>), Uniform(ImgRows, ImgCols, <<255, 0, 0>>)}

FrameLists(frameSet, lo, hi) ==
    UNION {[0..(n - 1) -> frameSet] : n \in lo..hi}

\* what the segmentation oracle can answer for a frame: subject everywhere
\* (confidence 255) or nowhere (confidence 180, not above the threshold)
OracleMaps ==
    {Uniform(ImgRows, ImgCols, 255), Uniform(ImgRows, ImgCols, 180)}

\* the frame rates of the input videos considered
SourceRates == {<<30000, 1001>>, <<25, 1>>}

(***************************************************************************)
(* sys.exit(code) and an uncaught exception: the `with` block of line 216  *)
(* is left, which removes the scratch directory with all its files, and    *)
(* the process ends.                                                       *)
(***************************************************************************)
\* a variant in which the process ends without leaving the `with` block
TmpdirKept == tmpdir

TmpdirAfterExit == IF tmpdir = "exists" THEN "removed" ELSE tmpdir

SysExit(code, message) ==
    /\ pc' = "exited"
    /\ exit_code' = code
    /\ error' = message
    /\ tmpdir' = TmpdirAfterExit
    /\ frames_dir' = IF TmpdirAfterExit = "removed" THEN NoFiles ELSE frames_dir
    /\ raw_masks_dir' = IF TmpdirAfterExit = "removed" THEN NoFiles ELSE raw_masks_dir
    /\ masks_dir' = IF TmpdirAfterExit = "removed" THEN NoFiles ELSE masks_dir
    /\ UNCHANGED <<mode, raw_alpha, scene_boundaries, i, fps, source_fps>>

Init ==
    /\ pc = "main"
    /\ mode = "unset"
    /\ tmpdir = "none"
    /\ frames_dir = NoFiles
    /\ raw_alpha = <<>>
    /\ raw_masks_dir = NoFiles
    /\ masks_dir = NoFiles
    /\ scene_boundaries = {}
    /\ i = 0
    /\ fps = <<>>
    /\ source_fps = <<>>
    /\ error = <<"none">>
    /\ exit_code = "running"
    /\ events = {}

\* lines 358-361: a wrong number of arguments
MainUsage ==
    /\ pc = "main"
    /\ SysExit(1, <<"usage">>)
    /\ UNCHANGED events

\* lines 363-367: a mode that is neither removeBg nor removePerson
MainBadMode ==
    /\ pc = "main"
    /\ SysExit(1, <<"mode">>)
    /\ UNCHANGED events

\* line 369: process_cutout is called
MainCall ==
    /\ pc = "main"
    /\ \E m \in {"removeBg", "removePerson"} : mode' = m
    /\ pc' = "import"
    /\ UNCHANGED <<tmpdir, frames_dir, raw_alpha, raw_masks_dir, masks_dir,
                   scene_boundaries, i, fps, source_fps, error, exit_code, events>>

\* lines 195-205: rembg, PIL or numpy is missing
ImportFails ==
    /\ pc = "import"
    /\ SysExit(1, <<"import">>)
    /\ UNCHANGED events

\* lines 212-214: the input file does not exist
InputMissing ==
    /\ pc = "import"
    /\ SysExit(1, <<"input">>)
    /\ UNCHANGED events

\* lines 216-222: the scratch directory and its three subdirectories
MakeTmpdir ==
    /\ pc = "import"
    /\ tmpdir' = "exists"
    /\ pc' = "extract"
    /\ UNCHANGED <<mode, frames_dir, raw_alpha, raw_masks_dir, masks_dir,
                   scene_boundaries, i, fps, source_fps, error, exit_code, events>>

\* lines 234-243: ffmpeg writes the frames (possibly none)
ExtractFrames ==
    /\ pc = "extract"
    /\ \E fs \in FrameLists(VideoFrames, 0, MaxFrames) : frames_dir' = fs
    /\ events' = events \cup {<<"extract">>}
    /\ pc' = "list"
    /\ UNCHANGED <<mode, tmpdir, raw_alpha, raw_masks_dir, masks_dir,
                   scene_boundaries, i, fps, source_fps, error, exit_code>>

\* _run_ffmpeg, lines 35-44: ffmpeg exits non-zero, or is not installed
ExtractFails ==
    /\ pc = "extract"
    /\ \E message \in {"ffmpeg failed", "ffmpeg not found"} : SysExit(1, <<message>>)
    /\ events' = events \cup {<<"extract">>}

\* a variant of lines 247-249 that ends the run with status 0
NoFramesExitZero ==
    /\ pc = "list"
    /\ Total = 0
    /\ SysExit(0, <<"no frames">>)
    /\ UNCHANGED events

\* lines 245-249: no frame was extracted
NoFrames ==
    /\ pc = "list"
    /\ Total = 0
    /\ SysExit(1, <<"no frames">>)
    /\ UNCHANGED events

\* lines 253-259: the segmentation model loads
LoadModel ==
    /\ pc = "list"
    /\ Total # 0
    /\ pc' = "pass1"
    /\ i' = 0
    /\ UNCHANGED <<mode, tmpdir, frames_dir, raw_alpha, raw_masks_dir, masks_dir,
                   scene_boundaries, fps, source_fps, error, exit_code, events>>

\* lines 256-258: new_session raises
LoadModelFails ==
    /\ pc = "list"
    /\ Total # 0
    /\ SysExit(1, <<"model">>)
    /\ UNCHANGED events

(***************************************************************************)
(* Pass 1 (lines 264-293)                                                  *)
(***************************************************************************)
\* a variant of line 288: -tight on a uint8 array
Negate(tight) ==
    Image(Rows(tight), Cols(tight), LAMBDA r, c : (256 - tight[r][c]) % 256)

\* line 288 on a uint8 array
Invert(tight) ==
    Image(Rows(tight), Cols(tight), LAMBDA r, c : (255 - tight[r][c]) % 256)

\* lines 284-288: the tight mask of a confidence map
TightMask(alpha, invert) ==
    IF invert THEN Invert(tighten_mask(alpha)) ELSE tighten_mask(alpha)

\* lines 278-293 for frame i: tighten, invert, save, go to the next frame
SaveTight(alpha) ==
    /\ raw_alpha' = alpha
    /\ raw_masks_dir' = WriteFile(raw_masks_dir, i, TightMask(alpha, invert_mask))
    /\ i' = i + 1

\* the loop of line 264 has a frame left
Pass1HasFrame == i < Total

\* lines 264-293: one frame is segmented and its tight mask stored
SegmentFrame ==
    /\ pc = "pass1"
    /\ Pass1HasFrame
    /\ \E alpha \in OracleMaps : SaveTight(alpha)
    /\ events' = events \cup {<<"segment", i>>}
    /\ UNCHANGED <<pc, mode, tmpdir, frames_dir, masks_dir, scene_boundaries,
                   fps, source_fps, error, exit_code>>

\* a variant of lines 272-275 that reports the frame and goes on to the next
FrameSkipped(k) ==
    /\ error' = <<"frame", k, Total>>
    /\ i' = i + 1
    /\ UNCHANGED <<pc, mode, tmpdir, frames_dir, raw_alpha, raw_masks_dir, masks_dir,
                   scene_boundaries, fps, source_fps, exit_code>>

\* lines 272-275: "ERROR: Frame k+1/total processing failed", exit status 1
FrameFailure(k) == SysExit(1, <<"frame", k, Total>>)

\* lines 269-275: opening or segmenting frame i raises
SegmentFails ==
    /\ pc = "pass1"
    /\ Pass1HasFrame
    /\ FrameFailure(i)
    /\ events' = events \cup {<<"segment", i>>}

(***************************************************************************)
(* Scene detection (line 296; _detect_scene_changes, lines 105-124)        *)
(***************************************************************************)
\* a variant of line 105 that starts from the empty set
NoFirstBoundary == {}

\* line 105
FirstBoundaries == {0}

\* a variant of the loop of line 109 that leaves out the last index
DetectStopsEarly == i < Total - 1

\* the loop of line 109 has an index left
DetectHasIndex == i < Total

\* pass 1 is over; lines 105-107
StartDetect ==
    /\ pc = "pass1"
    /\ ~Pass1HasFrame
    /\ scene_boundaries' = FirstBoundaries
    /\ i' = 1
    /\ pc' = "detect"
    /\ events' = events \cup {<<"detect">>}
    /\ UNCHANGED <<mode, tmpdir, frames_dir, raw_alpha, raw_masks_dir, masks_dir,
                   fps, source_fps, error, exit_code>>

\* lines 109-119 for index i
DetectStep ==
    /\ pc = "detect"
    /\ DetectHasIndex
    /\ scene_boundaries' = IF IsCut(frames_dir[i - 1], frames_dir[i])
                           THEN scene_boundaries \cup {i}
                           ELSE scene_boundaries
    /\ i' = i + 1
    /\ UNCHANGED <<pc, mode, tmpdir, frames_dir, raw_alpha, raw_masks_dir, masks_dir,
                   fps, source_fps, error, exit_code, events>>

(***************************************************************************)
(* Pass 2 (lines 299-310; _apply_temporal_smoothing, lines 156-190)        *)
(***************************************************************************)
\* a variant of line 299 that smooths a single frame too
SmoothingAlways == Total >= 1

\* line 299
SmoothingWanted == Total > 1

\* the detector returns; lines 299-303 and 156-158
StartSmoothing ==
    /\ pc = "detect"
    /\ ~DetectHasIndex
    /\ SmoothingWanted
    /\ pc' = "pass2"
    /\ i' = 0
    /\ events' = events \cup {<<"smooth">>}
    /\ UNCHANGED <<mode, tmpdir, frames_dir, raw_alpha, raw_masks_dir, masks_dir,
                   scene_boundaries, fps, source_fps, error, exit_code>>

\* the detector returns; lines 304-310: the only tight mask is copied
CopySingle ==
    /\ pc = "detect"
    /\ ~DetectHasIndex
    /\ ~SmoothingWanted
    /\ masks_dir' = WriteFile(masks_dir, 0, raw_masks_dir[0])
    /\ pc' = "probe"
    /\ UNCHANGED <<mode, tmpdir, frames_dir, raw_alpha, raw_masks_dir,
                   scene_boundaries, i, fps, source_fps, error, exit_code, events>>

\* lines 160-190 for frame i
SmoothFrame ==
    /\ pc = "pass2"
    /\ i < Total
    /\ masks_dir' = WriteFile(masks_dir, i,
                              SmoothedMask(raw_masks_dir, i, scene_boundaries, Total))
    /\ i' = i + 1
    /\ UNCHANGED <<pc, mode, tmpdir, frames_dir, raw_alpha, raw_masks_dir,
                   scene_boundaries, fps, source_fps, error, exit_code, events>>

\* a variant of the loop of line 160 that can stop after any frame
EndSmoothingEarly ==
    /\ pc = "pass2"
    /\ i <= Total
    /\ pc' = "probe"
    /\ UNCHANGED <<mode, tmpdir, frames_dir, raw_alpha, raw_masks_dir, masks_dir,
                   scene_boundaries, i, fps, source_fps, error, exit_code, events>>

\* _apply_temporal_smoothing returns
EndSmoothing ==
    /\ pc = "pass2"
    /\ i = Total
    /\ pc' = "probe"
    /\ UNCHANGED <<mode, tmpdir, frames_dir, raw_alpha, raw_masks_dir, masks_dir,
                   scene_boundaries, i, fps, source_fps, error, exit_code, events>>

(***************************************************************************)
(* Assembly (lines 313-354)                                                *)
(***************************************************************************)
\* line 329: float(num) / float(den) for whole numbers num < 2^16 and
\* 0 < den <= num; both are scaled by 2^-5, which leaves the quotient as it is
FloatRatio(num, den) == FDiv(<<0, 0, num * 2^6>>, <<0, 0, den * 2^6>>)

\* line 331: the double 30.0
FallbackFps == <<0, 0, 30 * 2^11>>

\* fps_str.split("/") (lines 326-328) for what ffprobe can print about an
\* input whose r_frame_rate is rate: the rate itself, "0/0" (a stream
\* without a known rate), nothing (no video stream), or "N/A"
ProbeOutputs(rate) == {rate, <<0, 0>>, <<>>, <<"N/A">>}

\* a variant of line 329 with a whole-number division
ParsedFpsWhole(parts) ==
    IF Len(parts) = 2
    THEN IF parts[2] # 0 THEN <<0, 0, (parts[1] \div parts[2]) * 2^11>> ELSE FallbackFps
    ELSE FallbackFps

\* lines 327-331: two fields and a divisor that is not zero give the
\* quotient; the unpacking error, ValueError and ZeroDivisionError give 30.0
ParsedFps(parts) ==
    IF Len(parts) = 2
    THEN IF parts[2] # 0 THEN FloatRatio(parts[1], parts[2]) ELSE FallbackFps
    ELSE FallbackFps

\* how a call of ffprobe can end: <<returncode, stdout split at "/">>; with a
\* returncode other than 0 (the input cannot be read) stdout is empty
ProbeRuns(rate) == {<<0, parts>> : parts \in ProbeOutputs(rate)} \cup {<<1, <<>>>>}

\* lines 316-334: subprocess.run without check=True, so the returncode is
\* not looked at
ProbeFps ==
    /\ pc = "probe"
    /\ \E rate \in SourceRates : \E run \in ProbeRuns(rate) :
           /\ source_fps' = rate
           /\ fps' = ParsedFps(run[2])
           /\ events' = events \cup {<<"probe">>, <<"ffprobe", run[1], run[2]>>}
    /\ pc' = "assemble"
    /\ UNCHANGED <<mode, tmpdir, frames_dir, raw_alpha, raw_masks_dir, masks_dir,
                   scene_boundaries, i, error, exit_code>>

\* line 316: ffprobe is not installed; subprocess.run raises, nothing catches
ProbeMissing ==
    /\ pc = "probe"
    /\ SysExit(1, <<"ffprobe not found">>)
    /\ events' = events \cup {<<"probe">>}

\* lines 340-354: the encoder succeeds, the `with` block ends, "Done"
AssembleOk ==
    /\ pc = "assemble"
    /\ events' = events \cup {<<"encode">>}
    /\ tmpdir' = "removed"
    /\ frames_dir' = NoFiles
    /\ raw_masks_dir' = NoFiles
    /\ masks_dir' = NoFiles
    /\ pc' = "done"
    /\ exit_code' = 0
    /\ UNCHANGED <<mode, raw_alpha, scene_boundaries, i, fps, source_fps, error>>

\* _run_ffmpeg, lines 35-44
AssembleFails ==
    /\ pc = "assemble"
    /\ \E message \in {"ffmpeg failed", "ffmpeg not found"} : SysExit(1, <<message>>)
    /\ events' = events \cup {<<"encode">>}

Next ==
    \/ MainUsage
    \/ MainBadMode
    \/ MainCall
    \/ ImportFails
    \/ InputMissing
    \/ MakeTmpdir
    \/ ExtractFrames
    \/ ExtractFails
    \/ NoFrames
    \/ LoadModel
    \/ LoadModelFails
    \/ SegmentFrame
    \/ SegmentFails
    \/ StartDetect
    \/ DetectStep
    \/ StartSmoothing
    \/ CopySingle
    \/ SmoothFrame
    \/ EndSmoothing
    \/ ProbeFps
    \/ ProbeMissing
    \/ AssembleOk
    \/ AssembleFails

Spec == Init /\ [][Next]_vars

(***************************************************************************)
(* The functions on their own.  Each specification starts where the run    *)
(* enters the function, with the function's inputs drawn from a bounded    *)
(* set, and steps through the function's loop.                             *)
(***************************************************************************)
Idle(at) ==
    /\ pc = at
    /\ tmpdir = "exists"
    /\ fps = <<>>
    /\ source_fps = <<>>
    /\ error = <<"none">>
    /\ exit_code = "running"
    /\ events = {}

\* confidence maps: the subject a rectangle or a diamond, the confidence inside
\* just above the threshold (181) or full, outside just not above it (180) or 0
RectMap(r0, r1, c0, c1, inside, outside) ==
    Image(ImgRows, ImgCols,
          LAMBDA r, c : IF r0 <= r /\ r <= r1 /\ c0 <= c /\ c <= c1
                        THEN inside ELSE outside)

DiamondMap(cr, cc, d, inside, outside) ==
    Image(ImgRows, ImgCols,
          LAMBDA r, c : IF Abs(r - cr) + Abs(c - cc) <= d THEN inside ELSE outside)

ConfMaps ==
    LET RowIdx == 0..(ImgRows - 1)
        ColIdx == 0..(ImgCols - 1)
    IN  UNION {
          {RectMap(r0, r1, c0, c1, inside, outside) :
               r0 \in RowIdx, r1 \in RowIdx, c0 \in ColIdx, c1 \in ColIdx}
          \cup {DiamondMap(cr, cc, d, inside, outside) :
               cr \in RowIdx, cc \in ColIdx, d \in 0..3}
          : inside \in {181, 255}, outside \in {0, 180}}

\* _tighten_mask and the inversion, lines 278-293, on one frame's oracle answer
InitTighten ==
    /\ Idle("pass1")
    /\ mode \in {"removeBg", "removePerson"}
    /\ frames_dir \in FrameLists({Uniform(ImgRows, ImgCols, <<0, 0, 0>>)}, 1, 1)
    /\ raw_alpha \in ConfMaps
    /\ raw_masks_dir = NoFiles
    /\ masks_dir = NoFiles
    /\ scene_boundaries = {}
    /\ i = 0

TightenFrame ==
    /\ pc = "pass1"
    /\ Pass1HasFrame
    /\ SaveTight(raw_alpha)
    /\ UNCHANGED <<pc, mode, tmpdir, frames_dir, masks_dir, scene_boundaries,
                   fps, source_fps, error, exit_code, events>>

SpecTighten == InitTighten /\ [][TightenFrame]_vars

\* frames for the detector: one colour each, or black under a grey first row
DetectFrames ==
    {Uniform(2, 2, <<0, 0, 0>>), Uniform(2, 2, <<25, 25, 25>>),
     Uniform(2, 2, <<26, 26, 26>>), Uniform(2, 2, <<255, 0, 0>>),
     Image(2, 2, LAMBDA r, c : IF r = 0 THEN <<51, 51, 51>> ELSE <<0, 0, 0>>)}

\* _detect_scene_changes after line 105, on a list of frames
InitDetect ==
    /\ Idle("detect")
    /\ mode = "removeBg"
    /\ frames_dir \in FrameLists(DetectFrames, 1, MaxSeq)
    /\ raw_alpha = <<>>
    /\ raw_masks_dir = NoFiles
    /\ masks_dir = NoFiles
    /\ scene_boundaries = FirstBoundaries
    /\ i = 1

SpecDetect == InitDetect /\ [][DetectStep]_vars

\* tight masks for the smoother: one pixel each, frame k's either 7 or 50 * k
TightLists(n) ==
    {[k \in 0..(n - 1) |-> Uniform(1, 1, IF k \in ramp THEN 50 * k ELSE 7)] :
        ramp \in SUBSET (0..(n - 1))}

\* _apply_temporal_smoothing after line 158, on a list of tight masks and a
\* boundary set as the detector returns them (0 and indices below n).  The
\* function takes any list of n >= 1 frames; process_cutout calls it for n >= 2.
InitSmooth ==
    /\ Idle("pass2")
    /\ mode = "removeBg"
    /\ \E n \in 1..MaxSeq :
          /\ frames_dir \in FrameLists({Uniform(1, 1, <<0, 0, 0>>)}, n, n)
          /\ raw_masks_dir \in TightLists(n)
          /\ scene_boundaries \in {{0} \cup B : B \in SUBSET (1..(n - 1))}
    /\ raw_alpha = <<>>
    /\ masks_dir = NoFiles
    /\ i = 0

SpecSmooth == InitSmooth /\ [][SmoothFrame]_vars

\* binary arrays for the erosion: every array of 1..MaxGrid rows and columns
BinaryGrids ==
    UNION {[0..(h - 1) -> [0..(w - 1) -> BOOLEAN]] :
              h \in 1..MaxGrid, w \in 1..MaxGrid}

\* _erode_mask on its own: raw_alpha holds the argument binary, and iteration
\* k's result is kept as raw_masks_dir[k]
InitErode ==
    /\ Idle("erode")
    /\ mode = "removeBg"
    /\ frames_dir = NoFiles
    /\ raw_alpha \in BinaryGrids
    /\ raw_masks_dir = NoFiles
    /\ masks_dir = NoFiles
    /\ scene_boundaries = {}
    /\ i = 0

\* _erode_mask(binary, iterations=1), lines 53-65
ErodeStep ==
    /\ pc = "erode"
    /\ i < 1
    /\ raw_masks_dir' = WriteFile(raw_masks_dir, i, erode_mask(raw_alpha, 1))
    /\ i' = i + 1
    /\ UNCHANGED <<pc, mode, tmpdir, frames_dir, raw_alpha, masks_dir, scene_boundaries,
                   fps, source_fps, error, exit_code, events>>

SpecErode == InitErode /\ [][ErodeStep]_vars

(***************************************************************************)
(* Properties                                                              *)
(***************************************************************************)
\* the frame whose smoothed mask the latest step of pass 2 wrote
JustSmoothed == i - 1

SmoothedOne == pc = "pass2" /\ i >= 1 /\ JustSmoothed \in DOMAIN masks_dir

\* the tight masks with frame k's replaced by a mask of value v everywhere
Perturbed(raw_masks, k, v) ==
    [raw_masks EXCEPT ![k] = Uniform(Rows(raw_masks[k]), Cols(raw_masks[k]), v)]

\* the frames that take part in frame k's blend
BlendFrames(k) ==
    LET offs == Included(k, SortedSeq(scene_boundaries), Total)
    IN  {k + offs[x] : x \in 1..Len(offs)}

\* frame k's smoothed mask does not depend on frame j's tight mask
Independent(k, j) ==
    /\ j \notin BlendFrames(k)
    /\ \A v \in {0, 255} :
          SmoothedMask(Perturbed(raw_masks_dir, j, v), k, scene_boundaries, Total)
              = masks_dir[k]

\* C1: no cross-scene blending.  When frame k is a scene boundary, the
\* smoothed mask written for frame k does not include tight mask k-1 (it is
\* the same whatever tight mask k-1 is), and when frame k+1 is a scene
\* boundary the smoothed mask written for frame k does not include tight
\* mask k+1.
C1_NoCrossSceneBlending ==
    SmoothedOne =>
        LET k == JustSmoothed
        IN  /\ (k >= 1 /\ k \in scene_boundaries) => Independent(k, k - 1)
            /\ (k + 1 < Total /\ k + 1 \in scene_boundaries) => Independent(k, k + 1)

\* C1's case: a smoothed mask written for a boundary frame whose predecessor
\* has another tight mask, the predecessor's smoothed mask written before it
C1_Witness ==
    /\ SmoothedOne
    /\ JustSmoothed >= 1
    /\ JustSmoothed \in scene_boundaries
    /\ raw_masks_dir[JustSmoothed - 1] # raw_masks_dir[JustSmoothed]
    /\ (JustSmoothed - 1) \in DOMAIN masks_dir

\* the boundary set the detector returns for the frames extracted
AllCuts ==
    {0} \cup {k \in 1..(Total - 1) : IsCut(frames_dir[k - 1], frames_dir[k])}

\* C2: the two-pass barrier.  Every step that writes a smoothed mask (a step
\* of pass 2, which reads tight masks to blend them) starts with the tight
\* masks of all frames written and the boundary set complete.
C2_TwoPassBarrier ==
    [][(masks_dir' # masks_dir /\ masks_dir' # NoFiles) =>
          /\ DOMAIN raw_masks_dir = 0..(Total - 1)
          /\ scene_boundaries = AllCuts
          /\ pc \in {"detect", "pass2"}
          /\ (pc = "detect" => i >= Total)]_vars

\* C2's case: pass 2 under way in a video with a cut
C2_Witness ==
    /\ pc = "pass2"
    /\ 0 \in DOMAIN masks_dir
    /\ Total >= 2
    /\ Cardinality(scene_boundaries) >= 2

\* C3: a failure of the segmentation of frame k is fatal.  The run has ended
\* with exit status 1 at that frame: no later frame was segmented, scene
\* detection and pass 2 were not started, no smoothed mask exists, and
\* neither ffprobe nor the encoder was called.
C3_Pass1FailureFatal ==
    error[1] = "frame" =>
        /\ pc = "exited"
        /\ exit_code = 1
        /\ i = error[2]
        /\ \A e \in events : e[1] = "segment" => e[2] <= error[2]
        /\ events \cap {<<"detect">>, <<"smooth">>, <<"probe">>, <<"encode">>} = {}
        /\ masks_dir = NoFiles

\* C3's case: the failure of a frame that is not the last, after other
\* frames were segmented
C3_Witness ==
    /\ error[1] = "frame"
    /\ error[2] >= 1
    /\ error[3] > error[2] + 1
    /\ <<"segment", 0>> \in events

\* the weights total_w of the latest blend, as line 178 adds them up
RECURSIVE TotalWeight(_, _, _)
TotalWeight(offs, k, total_w) ==
    IF k > Len(offs) THEN total_w
    ELSE TotalWeight(offs, k + 1, FAdd(total_w, weights(offs[k])))

\* frame k has both neighbours in its own scene
FullWindow(k) == BlendFrames(k) = {k - 1, k, k + 1}

\* C4: weight renormalization on a full window.  For a frame with both
\* neighbours in its scene the weights used add up to 1.0 and every pixel of
\* the smoothed mask is 0.15 * tight[k-1] + 0.70 * tight[k] + 0.15 * tight[k+1]
\* (as an 8-bit value: the whole part of that sum).
C4_FullWindowWeightedSum ==
    (SmoothedOne /\ FullWindow(JustSmoothed)) =>
        LET k == JustSmoothed
        IN  /\ TotalWeight(Offsets, 1, BigZero) = <<0, 0, 2^11>>
            /\ \A r \in DOMAIN masks_dir[k] : \A c \in DOMAIN masks_dir[k][r] :
                  masks_dir[k][r][c] =
                      (15 * raw_masks_dir[k - 1][r][c] + 70 * raw_masks_dir[k][r][c]
                         + 15 * raw_masks_dir[k + 1][r][c]) \div 100

\* C4's scenario: five frames in one scene, tight mask k of value 50 * k:
\* smoothed frame 2 is 100
C4_Scenario ==
    (/\ SmoothedOne
     /\ JustSmoothed = 2
     /\ Total = 5
     /\ scene_boundaries = {0}
     /\ \A k \in 0..4 : raw_masks_dir[k] = Uniform(1, 1, 50 * k))
        => masks_dir[2] = Uniform(1, 1, 100)

\* C5: boundary monotonicity.  While and after the detector runs on N >= 1
\* frames, its boundary set is not empty, contains 0 and no index outside
\* 0..N-1, and sorted(scene_boundaries) lists it strictly increasing.
C5_BoundaryMonotonicity ==
    pc = "detect" =>
        LET sorted_boundaries == SortedSeq(scene_boundaries)
        IN  /\ scene_boundaries # {}
            /\ 0 \in scene_boundaries
            /\ \A b \in scene_boundaries : 0 <= b /\ b < Total
            /\ Len(sorted_boundaries) = Cardinality(scene_boundaries)
            /\ \A k \in 1..Len(sorted_boundaries) :
                  sorted_boundaries[k] \in scene_boundaries
            /\ \A k \in 1..(Len(sorted_boundaries) - 1) :
                  sorted_boundaries[k] < sorted_boundaries[k + 1]

\* C5's case: the detector is through a list with cuts, one at the last frame
C5_Witness ==
    /\ pc = "detect"
    /\ ~DetectHasIndex
    /\ Total >= 3
    /\ Cardinality(scene_boundaries) >= 3
    /\ (Total - 1) \in scene_boundaries
    /\ Cardinality(scene_boundaries) < Total

\* C6: single-frame input.  When the assembler is reached with one frame
\* extracted, the boundary set is {0} and the only smoothed mask is the
\* frame's tight mask.
C6_SingleFrame ==
    (pc \in {"probe", "assemble"} /\ Total = 1) =>
        /\ scene_boundaries = {0}
        /\ DOMAIN masks_dir = {0}
        /\ masks_dir[0] = raw_masks_dir[0]

\* C6's case: one frame, with a tight mask that is neither all 0 nor all 255
C6_Witness ==
    /\ pc = "assemble"
    /\ Total = 1
    /\ 0 \in DOMAIN masks_dir
    /\ \E r \in DOMAIN masks_dir[0] : \E c \in DOMAIN masks_dir[0][r] :
          masks_dir[0][r][c] \notin {0, 255}

\* the frame whose tight mask the latest step of pass 1 wrote
JustTightened == i - 1

TightenedOne == pc = "pass1" /\ i >= 1 /\ JustTightened \in DOMAIN raw_masks_dir

\* the eroded binary mask of the frame in hand (line 81)
Eroded == erode_mask(Binarize(raw_alpha), 2)

OnBorder(img, r, c) ==
    r = 0 \/ r = Rows(img) - 1 \/ c = 0 \/ c = Cols(img) - 1

\* C7 as claimed: every pixel of the outermost rows and columns of the
\* tightened mask (threshold, erosion, edge blur; not inverted) is 0.
C7_TightBorderZero ==
    (TightenedOne /\ ~invert_mask) =>
        LET tight == raw_masks_dir[JustTightened]
        IN  \A r \in DOMAIN tight : \A c \in DOMAIN tight[r] :
                OnBorder(tight, r, c) => tight[r][c] = 0

\* C7 amended: the outermost rows and columns of the eroded binary mask are
\* cleared, and the tightened mask is the Gaussian blur of that eroded mask
\* (which spreads the subject back onto the border).
C7_ErodedBorderCleared ==
    (TightenedOne /\ ~invert_mask) =>
        /\ \A r \in DOMAIN Eroded : \A c \in DOMAIN Eroded[r] :
              OnBorder(Eroded, r, c) => ~Eroded[r][c]
        /\ raw_masks_dir[JustTightened] = GaussianBlur(ToIntensity(Eroded))

\* C7's case: a subject that survives the erosion, and a tight mask that is
\* not 0 on the border
C7_Witness ==
    /\ TightenedOne
    /\ ~invert_mask
    /\ \E r \in DOMAIN Eroded : \E c \in DOMAIN Eroded[r] : Eroded[r][c]
    /\ \E r \in DOMAIN raw_alpha : \E c \in DOMAIN raw_alpha[r] :
          /\ OnBorder(raw_alpha, r, c)
          /\ raw_masks_dir[JustTightened][r][c] # 0

\* C8 as claimed: every pixel that is not 0 in the tightened mask (not
\* inverted) was classified as subject, confidence > 180, by the binarization.
C8_NonZeroWasSubject ==
    (TightenedOne /\ ~invert_mask) =>
        LET tight == raw_masks_dir[JustTightened]
        IN  \A r \in DOMAIN tight : \A c \in DOMAIN tight[r] :
                tight[r][c] # 0 => raw_alpha[r][c] > 180

\* C8 amended: every pixel of the eroded binary mask was classified as subject
\* by the binarization, and a pixel that is not 0 in the tightened mask lies
\* within 6 rows and 6 columns (three blur passes of reach 2) of a pixel of
\* the eroded mask; it need not have been subject itself.
C8_ErosionOnlyRemoves ==
    (TightenedOne /\ ~invert_mask) =>
        LET tight == raw_masks_dir[JustTightened]
        IN  \A r \in DOMAIN tight : \A c \in DOMAIN tight[r] :
                /\ Eroded[r][c] => raw_alpha[r][c] > 180
                /\ tight[r][c] # 0 =>
                      \E r2 \in DOMAIN tight : \E c2 \in DOMAIN tight[r2] :
                          /\ Eroded[r2][c2]
                          /\ raw_alpha[r2][c2] > 180
                          /\ Abs(r2 - r) <= 6
                          /\ Abs(c2 - c) <= 6

\* C8's case: a tight mask that is not 0 at a pixel the binarization did not
\* classify as subject
C8_Witness ==
    /\ TightenedOne
    /\ ~invert_mask
    /\ \E r \in DOMAIN raw_alpha : \E c \in DOMAIN raw_alpha[r] :
          /\ raw_alpha[r][c] <= 180
          /\ raw_masks_dir[JustTightened][r][c] # 0

\* C9: the polarity invariant.  The tight mask a run stores for a confidence
\* map is the one of its mode, the mask of removePerson mode is, pixel by
\* pixel, 255 minus the mask of removeBg mode, and both stay within 0..255.
C9_Polarity ==
    TightenedOne =>
        LET stored == raw_masks_dir[JustTightened]
            other  == TightMask(raw_alpha, ~invert_mask)
            person == IF invert_mask THEN stored ELSE other
            bg     == IF invert_mask THEN other ELSE stored
        IN  \A r \in DOMAIN stored : \A c \in DOMAIN stored[r] :
                /\ person[r][c] = 255 - bg[r][c]
                /\ person[r][c] \in 0..255
                /\ bg[r][c] \in 0..255

\* C9's case: a mask stored in removePerson mode with a pixel strictly
\* between 0 and 255
C9_Witness ==
    /\ TightenedOne
    /\ invert_mask
    /\ \E r \in DOMAIN raw_alpha : \E c \in DOMAIN raw_alpha[r] :
          raw_masks_dir[JustTightened][r][c] \notin {0, 255}

\* C10: the lifetime of the scratch directory.  When a run that created the
\* scratch directory has ended, by success or by any failure, the directory
\* and its three collections are gone.
C10_ScratchRemoved ==
    (pc \in {"exited", "done"} /\ <<"extract">> \in events) =>
        /\ tmpdir = "removed"
        /\ frames_dir = NoFiles
        /\ raw_masks_dir = NoFiles
        /\ masks_dir = NoFiles

\* C10's case: a run that failed at a frame of pass 1, after tight masks were
\* stored
C10_Witness ==
    /\ pc = "exited"
    /\ error[1] = "frame"
    /\ error[2] >= 1
    /\ tmpdir = "removed"

\* the run is over
Terminated == pc \in {"exited", "done"}

\* the stages a run goes through, as the events they leave
AllStages ==
    {<<"extract">>, <<"detect">>, <<"probe">>, <<"encode">>}
        \cup {<<"segment", k>> : k \in 0..(Cardinality({e \in events : e[1] = "segment"}) - 1)}

\* the calls of ffprobe made so far: <<"ffprobe", returncode, stdout fields>>
ProbeCalls == {e \in events : Len(e) = 3}

\* ffprobe ended with a returncode other than 0
ProbeFailed == \E e \in ProbeCalls : e[2] # 0

\* the whole number v as a double
WholeDouble(v) == <<0, 0, v * 2^11>>

AssemblerInvoked == pc = "assemble" \/ <<"encode">> \in events

\* C12: frame-index preservation.  When the assembler is invoked, masks_dir
\* holds exactly one smoothed mask for every extracted frame index 0..N-1 and
\* no others, the same indices as the tight masks and the frames.
C12_FrameIndexPreserved ==
    pc = "assemble" =>
        /\ Total >= 1
        /\ DOMAIN masks_dir = 0..(Total - 1)
        /\ DOMAIN raw_masks_dir = DOMAIN masks_dir
        /\ DOMAIN frames_dir = DOMAIN masks_dir

\* C12's case: the assembler invoked on several frames in several scenes
C12_Witness ==
    /\ pc = "assemble"
    /\ Total >= 3
    /\ Cardinality(scene_boundaries) >= 2
    /\ DOMAIN masks_dir = 0..(Total - 1)

\* x * v for a natural v, 256 at a time
RECURSIVE BigMul(_, _)
BigMul(x, v) ==
    IF v < 256 THEN BigMulSmall(x, v)
    ELSE BigAdd(BigMulSmall(BigMul(x, v \div 256), 256), BigMulSmall(x, v % 256))

BigDist(x, y) == IF BigLess(x, y) THEN BigSub(y, x) ELSE BigSub(x, y)

\* the double x is the frame rate rate[1] / rate[2], as closely as a double
\* can be: |x * den - num| is at most den times half a unit in x's last place
IsRate(x, rate) ==
    /\ x # <<>>
    /\ LET half == IF BigBitLen(x) > 53 THEN 2^(BigBitLen(x) - 54) ELSE 0
           dist == BigDist(BigMul(x, rate[2]), BigMul(WholeDouble(1), rate[1]))
       IN  ~BigLess(BigNorm(half * rate[2], 0, 0), dist)

SceneStart(k) ==
    CHOOSE b \in scene_boundaries : b <= k /\ \A x \in scene_boundaries : x <= k => x <= b

SceneEnd(k) ==
    LET later == {b \in scene_boundaries : b > k} \cup {Total}
    IN  CHOOSE e \in later : \A x \in later : e <= x

\* offset o is included in frame k's blend as the specification words it
InWindow(k, o) ==
    /\ k + o \in 0..(Total - 1)
    /\ SceneStart(k) <= k + o
    /\ k + o < SceneEnd(k)

\* the weights in hundredths
Hundredths(o) == IF o = 0 THEN 70 ELSE 15

\* the exact weighted sum of the included neighbours of pixel (r, c) of frame
\* k, and the sum of the weights used, both in hundredths
WeightedSum(k, r, c) ==
    LET term(o) == IF InWindow(k, o)
                   THEN Hundredths(o) * raw_masks_dir[k + o][r][c] ELSE 0
    IN  term(-1) + term(0) + term(1)

UsedWeight(k) ==
    LET term(o) == IF InWindow(k, o) THEN Hundredths(o) ELSE 0
    IN  term(-1) + term(0) + term(1)

\* C14 as claimed: dropped-weight renormalization.  Every pixel of the
\* smoothed mask of frame k is the weighted sum of the included neighbours
\* divided by the sum of the weights used (as an 8-bit value: the whole part
\* of the quotient, or the quotient rounded), and lies in 0..255.
C14_DroppedWeightQuotient ==
    SmoothedOne =>
        LET k == JustSmoothed
        IN  \A r \in DOMAIN masks_dir[k] : \A c \in DOMAIN masks_dir[k][r] :
                /\ masks_dir[k][r][c] \in 0..255
                /\ masks_dir[k][r][c] \in
                      {WeightedSum(k, r, c) \div UsedWeight(k),
                       (2 * WeightedSum(k, r, c) + UsedWeight(k)) \div (2 * UsedWeight(k))}

\* the neighbours of frame k that exist but belong to another scene
OtherScene(k) ==
    {o \in {-1, 1} : k + o \in 0..(Total - 1) /\ k + o \notin BlendFrames(k)}

\* C15 as claimed (the docstring of _apply_temporal_smoothing): the weight of a
\* neighbour in another scene goes to the current frame, so with the
\* previous neighbour excluded the output is 0.85 * tight[k] + 0.15 * tight[k+1]
\* (here: to within one grey level, which leaves the conversion to 8 bits aside).
C15_RedistributedToCurrent ==
    (SmoothedOne /\ JustSmoothed >= 1 /\ JustSmoothed + 1 < Total
        /\ OtherScene(JustSmoothed) # {}) =>
        LET k == JustSmoothed
            kept == {-1, 1} \ OtherScene(k)
            term(o) == IF o \in kept THEN 15 ELSE 0
        IN  \A r \in DOMAIN masks_dir[k] : \A c \in DOMAIN masks_dir[k][r] :
                LET claimed ==
                        (70 + 15 * Cardinality(OtherScene(k))) * raw_masks_dir[k][r][c]
                          + term(-1) * raw_masks_dir[k - 1][r][c]
                          + term(1) * raw_masks_dir[k + 1][r][c]
                IN  Abs(100 * masks_dir[k][r][c] - claimed) <= 100

\* 4-connected erosion by the book: a pixel stays iff it and its neighbours
\* above, below, left and right all lie inside the array and are subject
ReferenceErosion(binary) ==
    LET inside(r, c) == r \in DOMAIN binary /\ c \in DOMAIN binary[0]
        subject(r, c) == IF inside(r, c) THEN binary[r][c] ELSE FALSE
    IN  [r \in DOMAIN binary |-> [c \in DOMAIN binary[r] |->
            /\ subject(r, c)
            /\ subject(r - 1, c)
            /\ subject(r + 1, c)
            /\ subject(r, c - 1)
            /\ subject(r, c + 1)]]

\* C16: one iteration of _erode_mask is the 4-connected reference erosion, on
\* every binary array, arrays one and two pixels wide included: a pixel is
\* kept iff it and its four neighbours are subject and inside the array, the
\* pixels on the array's edge are cleared, and nothing wraps around.
C16_ErosionMatchesReference ==
    (pc = "erode" /\ i = 1) =>
        LET result == raw_masks_dir[0]
        IN  /\ result = ReferenceErosion(raw_alpha)
            /\ \A r \in DOMAIN result : \A c \in DOMAIN result[r] :
                  OnBorder(result, r, c) => ~result[r][c]

\* C16's case: an array whose edge pixels have all their wrapped-around
\* neighbours subject, eroded to its inner pixels
C16_Witness ==
    /\ pc = "erode"
    /\ i = 1
    /\ Rows(raw_alpha) >= 3
    /\ Cols(raw_alpha) >= 3
    /\ \A r \in DOMAIN raw_alpha : \A c \in DOMAIN raw_alpha[r] : raw_alpha[r][c]
    /\ raw_masks_dir[0][1][1]
    /\ ~raw_masks_dir[0][0][0]

\* the absolute luminance differences of frames k-1 and k, pixel by pixel, as
\* a set of <<row, column, difference>>, and their sum
LumaDiffs(k) ==
    {<<r, c, Abs(Luma(frames_dir[k - 1][r][c]) - Luma(frames_dir[k][r][c]))>> :
        r \in DOMAIN frames_dir[k], c \in DOMAIN frames_dir[k][0]}

RECURSIVE SumDiffs(_)
SumDiffs(D) ==
    IF D = {} THEN 0
    ELSE LET d == CHOOSE x \in D : TRUE IN d[3] + SumDiffs(D \ {d})

\* the mean absolute luminance difference of frames k-1 and k, compared with
\* the threshold 25: -1 below, 0 equal, 1 above
MeanDiffAgainstThreshold(k) ==
    LET total == SumDiffs(LumaDiffs(k))
        count == Cardinality(LumaDiffs(k))
    IN  IF total > 25 * count THEN 1 ELSE IF total = 25 * count THEN 0 ELSE -1

\* C17: the cut criterion.  An index k >= 1 the detector has examined is in
\* the boundary set iff the mean absolute luminance difference between frames
\* k-1 and k is strictly greater than the threshold (a difference equal to
\* the threshold is no cut); index 0 is in the set whatever the frames are,
\* and no index is in it before it was examined.
C17_CutCriterion ==
    pc = "detect" =>
        /\ 0 \in scene_boundaries
        /\ \A k \in 1..(Total - 1) :
              k \in scene_boundaries <=> (k < i /\ MeanDiffAgainstThreshold(k) = 1)

\* C17's case: the detector done with a sequence in which one pair of frames
\* differs by exactly the threshold (no cut), one by a mean of 25.5 (a cut)
C17_Witness ==
    /\ pc = "detect"
    /\ i = Total
    /\ \E k \in 1..(Total - 1) :
          MeanDiffAgainstThreshold(k) = 0 /\ k \notin scene_boundaries
    /\ \E k \in 1..(Total - 1) :
          /\ 2 * SumDiffs(LumaDiffs(k)) = 51 * Cardinality(LumaDiffs(k))
          /\ k \in scene_boundaries

\* what _scene_range returns for frame idx of the video being smoothed
RangeOf(idx) == scene_range(idx, SortedSeq(scene_boundaries), Total)

\* C18: the scene range.  For n >= 1 frames, a sorted boundary list that
\* contains 0 and only indices below n, and every idx in 0..n-1, _scene_range
\* returns <<start, end>> with start the largest boundary <= idx and end the
\* smallest boundary > idx (n if there is none), so start <= idx < end <= n;
\* all frames of a range have that same range, and the ranges begin at the
\* boundaries: they partition 0..n-1 into contiguous half-open intervals.
C18_SceneRange ==
    pc = "pass2" =>
        \A idx \in 0..(Total - 1) :
            LET range == RangeOf(idx)
            IN  /\ range = <<SceneStart(idx), SceneEnd(idx)>>
                /\ range[1] <= idx /\ idx < range[2] /\ range[2] <= Total
                /\ range[1] \in scene_boundaries
                /\ range[2] = Total \/ range[2] \in scene_boundaries
                /\ \A j \in 0..(Total - 1) :
                      (range[1] <= j /\ j < range[2]) <=> RangeOf(j) = range

\* C18's case: a frame smoothed inside a scene of several frames that is
\* neither the first nor the last scene
C18_Witness ==
    /\ SmoothedOne
    /\ RangeOf(JustSmoothed)[1] > 0
    /\ RangeOf(JustSmoothed)[2] < Total
    /\ RangeOf(JustSmoothed)[2] - RangeOf(JustSmoothed)[1] >= 2
    /\ JustSmoothed > RangeOf(JustSmoothed)[1]

\* the offsets frame k's blend goes over, and what lines 164-178 leave in
\* blended_sum and total_w for pixel (r, c)
OffsetsOf(k) == Included(k, SortedSeq(scene_boundaries), Total)

BlendOf(k, r, c) ==
    BlendLoop(OffsetsOf(k),
              [x \in 1..Len(OffsetsOf(k)) |-> raw_masks_dir[k + OffsetsOf(k)[x]][r][c]],
              1, None, BigZero)

\* C19: the fallback is unreachable.  For every frame k of n >= 1 frames and
\* every boundary set, offset 0 is included in frame k's blend, the weights
\* used add up to at least 0.70, blended_sum is not None and total_w is not 0:
\* the copy of lines 180-186 is never taken.
C19_FallbackUnreachable ==
    pc = "pass2" =>
        \A k \in 0..(Total - 1) :
            /\ \E x \in 1..Len(OffsetsOf(k)) : OffsetsOf(k)[x] = 0
            /\ k \in BlendFrames(k)
            /\ \A r \in DOMAIN raw_masks_dir[k] : \A c \in DOMAIN raw_masks_dir[k][r] :
                  /\ BlendOf(k, r, c)[1] # None
                  /\ BlendOf(k, r, c)[2] # BigZero
                  /\ ~BigLess(BlendOf(k, r, c)[2], weights(0))

\* C19's case: a frame smoothed that is alone in its scene, both neighbours
\* in other scenes
C19_Witness ==
    /\ SmoothedOne
    /\ JustSmoothed >= 1
    /\ JustSmoothed + 1 < Total
    /\ BlendFrames(JustSmoothed) = {JustSmoothed}
    /\ BlendOf(JustSmoothed, 0, 0)[2] = weights(0)

====
